---- MODULE Spec2Model ----
(***************************************************************************)
(* Forecast orchestration of the predictive disaster globe:                *)
(* usePredictionEngine (infer / cancel / cleanup) and the polling effect   *)
(* of RiskForecastOverlay (fetchAll, setInterval, effect cleanup).         *)
(*                                                                         *)
(* JavaScript runs one task at a time.  A step of the model is one task:   *)
(* a React commit (props change, unmount), an interval callback, a call of *)
(* cancel, or the settling of one fetch together with the continuation of  *)
(* the awaiting fetchAll up to its next await (or its end).                *)
(***************************************************************************)
EXTENDS Integers, Sequences, FiniteSets, TLC

\* ------------------------------- bounds ---------------------------------
\* A new poll cycle (fetchAll execution) starts only while the cycles started
\* so far have fewer than RequestBudget cells between them: two cycles of a
\* one-horizon grid (3 cells), one cycle of the two-horizon grid (6 cells)
\* and one of the default grid (9 cells).
RequestBudget == 6

\* --------------------------- program constants --------------------------
disasters == <<"fires", "floods", "landslides">>
Hours == <<6, 12, 24>>

Null == "null"
\* no console output
NoWarn == [why |-> "none"]

Range(f) == {f[x] : x \in DOMAIN f}

\* The values of the hoursList prop: the non-empty prefixes of the default.
HoursChoices == {SubSeq(Hours, 1, n) : n \in 1..Len(Hours)}

VARIABLES
    phase,             \* "new" (rendered, effects not yet run), "live", "gone" (unmounted)
    enabled,           \* the enabled prop of the last commit
    hoursList,         \* the hoursList prop (the same in every commit)
    timers,            \* number of interval timers that are set and not cleared
    cycles,            \* the fetchAll executions started so far, in order of start
    abortControllers,  \* abortControllers.current: key -> controller (the cycle owning it)
    predictions,       \* the predictions state of RiskForecastOverlay
    lastWarn,          \* console.warn written by the last step, or NoWarn
    job,               \* the input of one render pass or of one success response
    out                \* what that render pass or response handling produced

vars == <<phase, enabled, hoursList, timers, cycles, abortControllers, predictions,
          lastWarn, job, out>>
\* the state of the polling overlay and of the prediction engine
overlayVars == <<phase, enabled, hoursList, timers, cycles, abortControllers, predictions,
                 lastWarn>>

\* ------------------------------ JS objects ------------------------------
\* obj[k] = v on a plain object
Put(m, k, v) == [x \in (DOMAIN m) \cup {k} |-> IF x = k THEN v ELSE m[x]]
\* delete obj[k]
Delete(m, k) == [x \in (DOMAIN m) \ {k} |-> m[x]]
EmptyObj == [x \in {} |-> Null]

\* { fires: {}, floods: {}, landslides: {} }
EmptyPred == [d \in Range(disasters) |-> EmptyObj]

\* `${disaster}-${horizonHours}`
KeyOf(d, h) == <<d, h>>

\* The cells of a cycle in the order of the nested for loops.
NumCells(hl) == Len(disasters) * Len(hl)
CellD(hl, k) == disasters[((k - 1) \div Len(hl)) + 1]
\* Mutant: the loops are nested the other way round for the horizon.
CellH_HorizonMajor(hl, k) == hl[((k - 1) \div Len(disasters)) + 1]

CellH(hl, k) == hl[((k - 1) % Len(hl)) + 1]
CellKey(hl, k) == KeyOf(CellD(hl, k), CellH(hl, k))

\* ------------------------------ the backend -----------------------------
\* The features the backend computes for the request of cycle c for (d, h);
\* they carry the request's identity so that responses can be told apart.
BackendFeatures(c, d, h) == <<[cycle |-> c, disaster |-> d, horizon |-> h]>>

\* A JSON object with optional fields geojson and features; an optional
\* field is <<>> when absent and <<value>> when present.
NoFields == [geojson |-> <<>>, features |-> <<>>]
FeatureCollection(fs) == [geojson |-> <<>>, features |-> <<fs>>]
\* The JSON bodies of a success response: bare, wrapped, or without features.
Bodies(c, d, h) ==
    { FeatureCollection(BackendFeatures(c, d, h)),
      [geojson |-> <<FeatureCollection(BackendFeatures(c, d, h))>>, features |-> <<>>],
      NoFields }

\* How a fetch that was not aborted can settle.
Outcomes(c, d, h) ==
    {[kind |-> "ok", body |-> b] : b \in Bodies(c, d, h)}
      \cup {[kind |-> "notok", body |-> NoFields], [kind |-> "neterr", body |-> NoFields]}

\* Mutant: the body is returned as it is, a wrapper is not opened.
InferReturn_NoUnwrap(json) == json

\* return json.geojson || json
InferReturn(json) == IF json.geojson # <<>> THEN json.geojson[1] ELSE json
\* geojson && Array.isArray(geojson.features) ? geojson.features : []
CellFeatures(geojson) == IF geojson.features # <<>> THEN geojson.features[1] ELSE <<>>

\* ------------------------------ poll cycles -----------------------------
\* A running fetchAll: its captured hoursList, the cell it awaits, newPred,
\* the mounted flag of its effect instance, and the state of the
\* AbortController of the request it awaits.
NewCycle(hl) ==
    [st |-> "run", hours |-> hl, idx |-> 1, newPred |-> EmptyPred,
     mounted |-> TRUE, ab |-> "none"]
DoneCycle ==
    [st |-> "done", hours |-> <<>>, idx |-> 0, newPred |-> EmptyPred,
     mounted |-> FALSE, ab |-> "none"]

Running == {c \in DOMAIN cycles : cycles[c].st = "run"}
CurD(c) == CellD(cycles[c].hours, cycles[c].idx)
CurH(c) == CellH(cycles[c].hours, cycles[c].idx)
CurKey(c) == KeyOf(CurD(c), CurH(c))

\* fetchAll() up to its first await: infer(d1, h1) registers its controller.
StartFetchAll(cs, reg, hl) ==
    [cycles |-> Append(cs, NewCycle(hl)),
     reg |-> Put(reg, CellKey(hl, 1), Len(cs) + 1)]

\* mounted = false in the closure of the effect instance being cleaned up
EffectCleanup(cs) == [c \in DOMAIN cs |-> [cs[c] EXCEPT !.mounted = FALSE]]

\* Object.values(abortControllers.current).forEach((c) => c.abort())
AbortAll(cs, reg) ==
    [c \in DOMAIN cs |->
        IF c \in Range(reg) /\ cs[c].ab = "none"
        THEN [cs[c] EXCEPT !.ab = "cleanup"] ELSE cs[c]]

\* No render pass or response under study (the polling specification).
NoJob ==
    [kind |-> "none", feats |-> <<>>, style |-> "fires", horizonIdx |-> 0,
     fs |-> <<>>, wrapped |-> FALSE, hasFeatures |-> FALSE]
NoOut == [done |-> FALSE, thrown |-> FALSE, prims |-> <<>>, features |-> <<>>]

\* The bound on the cycles of a behaviour.
WithinBudget == Len(cycles) * NumCells(hoursList) < RequestBudget

Init ==
    /\ phase = "new"
    /\ enabled \in BOOLEAN
    /\ hoursList \in HoursChoices
    /\ timers = 0
    /\ cycles = <<>>
    /\ abortControllers = EmptyObj
    /\ predictions = EmptyPred
    /\ lastWarn = NoWarn
    /\ job = NoJob
    /\ out = NoOut

\* First commit: the effects run; the polling effect returns early when disabled.
Mount ==
    /\ phase = "new"
    /\ phase' = "live"
    /\ IF enabled
       THEN LET s == StartFetchAll(cycles, abortControllers, hoursList) IN
            /\ cycles' = s.cycles
            /\ abortControllers' = s.reg
            /\ timers' = timers + 1
       ELSE UNCHANGED <<cycles, abortControllers, timers>>
    /\ lastWarn' = NoWarn
    /\ UNCHANGED <<enabled, hoursList, predictions, job, out>>

\* enabled: false -> true.  The effect runs: fetchAll() and setInterval.
Enable ==
    /\ phase = "live"
    /\ ~enabled
    /\ WithinBudget
    /\ enabled' = TRUE
    /\ LET s == StartFetchAll(cycles, abortControllers, hoursList) IN
        /\ cycles' = s.cycles
        /\ abortControllers' = s.reg
    /\ timers' = timers + 1
    /\ lastWarn' = NoWarn
    /\ UNCHANGED <<phase, hoursList, predictions, job, out>>

\* Mutant: the cleanup does not clear the interval.
Disable_NoClear ==
    /\ phase = "live"
    /\ enabled
    /\ enabled' = FALSE
    /\ cycles' = EffectCleanup(cycles)
    /\ timers' = timers
    /\ lastWarn' = NoWarn
    /\ UNCHANGED <<phase, hoursList, abortControllers, predictions, job, out>>

\* enabled: true -> false.  The effect's cleanup runs; the new effect returns early.
Disable ==
    /\ phase = "live"
    /\ enabled
    /\ enabled' = FALSE
    /\ cycles' = EffectCleanup(cycles)
    /\ timers' = timers - 1
    /\ lastWarn' = NoWarn
    /\ UNCHANGED <<phase, hoursList, abortControllers, predictions, job, out>>

\* A commit with another pollInterval while enabled: the effect is cleaned
\* up (mounted = false, clearInterval) and run again (fetchAll, setInterval).
ChangePollInterval ==
    /\ phase = "live"
    /\ enabled
    /\ WithinBudget
    /\ LET s == StartFetchAll(EffectCleanup(cycles), abortControllers, hoursList) IN
        /\ cycles' = s.cycles
        /\ abortControllers' = s.reg
    /\ lastWarn' = NoWarn
    /\ UNCHANGED <<phase, enabled, hoursList, timers, predictions, job, out>>

\* A commit with the same enabled, hoursList and pollInterval (the parent or
\* setPredictions re-rendered the component): the dependencies of the
\* polling effect are unchanged, so neither its cleanup nor the effect runs.
Rerender ==
    /\ phase = "live"
    /\ UNCHANGED vars

\* Unmount: the cleanups of both effects run in the same commit.
Unmount ==
    /\ phase = "live"
    /\ phase' = "gone"
    /\ cycles' = (IF enabled THEN EffectCleanup(AbortAll(cycles, abortControllers))
                             ELSE AbortAll(cycles, abortControllers))
    /\ abortControllers' = EmptyObj
    /\ timers' = (IF enabled THEN timers - 1 ELSE timers)
    /\ lastWarn' = NoWarn
    /\ UNCHANGED <<enabled, hoursList, predictions, job, out>>

\* The interval fires: fetchAll() of the live effect instance.
TimerFire ==
    /\ timers > 0
    /\ WithinBudget
    /\ LET s == StartFetchAll(cycles, abortControllers, hoursList) IN
        /\ cycles' = s.cycles
        /\ abortControllers' = s.reg
    /\ lastWarn' = NoWarn
    /\ UNCHANGED <<phase, enabled, hoursList, timers, predictions, job, out>>

\* cancel(disaster, horizonHours)
CancelEffect(cs, reg, d, h) ==
    IF KeyOf(d, h) \in DOMAIN reg /\ cs[reg[KeyOf(d, h)]].ab = "none"
    THEN [cs EXCEPT ![reg[KeyOf(d, h)]].ab = "cancel"]
    ELSE cs

Cancel(d, h) ==
    /\ phase = "live"
    /\ cycles' = CancelEffect(cycles, abortControllers, d, h)
    /\ lastWarn' = (IF cycles' = cycles THEN lastWarn ELSE NoWarn)
    /\ UNCHANGED <<phase, enabled, hoursList, timers, abortControllers, predictions, job, out>>

\* The value fetchAll stores for the awaited cell when infer settles with o.
StoredFeatures(o) ==
    IF o.kind = "ok" THEN CellFeatures(InferReturn(o.body)) ELSE <<>>

\* console.warn in the catch of the cell
WarnOf(c, o) ==
    IF o.kind = "ok" THEN NoWarn
    ELSE [why |-> IF o.kind = "abort" THEN cycles[c].ab ELSE "failed"]

\* Mutant: the handle is not removed when the call settles.
InferFinally_Leak(reg, key) == reg

\* finally { delete abortControllers.current[key] }
InferFinally(reg, key) == Delete(reg, key)

\* Mutant: the catch branch does not assign the cell.
StoreCell_SkipFailed(np, d, h, fs) ==
    IF fs = <<>> THEN np ELSE [np EXCEPT ![d] = Put(@, h, fs)]

\* Mutant: newPred[d] = { [h]: features } drops the disaster's earlier horizons.
StoreCell_Replace(np, d, h, fs) == [np EXCEPT ![d] = Put(EmptyObj, h, fs)]

\* newPred[d][h] = features
StoreCell(np, d, h, fs) == [np EXCEPT ![d] = Put(@, h, fs)]

\* Mutant: the mounted flag is not tested before setPredictions.
Publish_Always(old, mounted, np) == np

\* if (!mounted) return; setPredictions(newPred)
Publish(old, mounted, np) == IF mounted THEN np ELSE old

\* A fetchAll whose promise rejected (no code path leads here: see Caught).
RejectedCycle == [DoneCycle EXCEPT !.st = "rejected"]

\* Mutant: without the catch clauses a failed or aborted request escapes fetchAll.
Caught_OnlySuccess(o) == o.kind = "ok"

\* Whether fetchAll goes on after its awaited infer settles with o: on
\* success the try block completes, on a rejection the catch of the cell
\* takes over (and the outer catch takes whatever that one throws).
Caught(o) == TRUE

\* The fetch of cycle c settles with outcome o; infer's finally runs, then
\* fetchAll stores the cell and goes on to the next cell or to its end.
Settle(c, o) ==
    LET cy  == cycles[c]
        reg == InferFinally(abortControllers, CurKey(c))
        np  == StoreCell(cy.newPred, CurD(c), CurH(c), StoredFeatures(o))
    IN
    /\ lastWarn' = WarnOf(c, o)
    /\ IF ~Caught(o)
       THEN /\ cycles' = [cycles EXCEPT ![c] = RejectedCycle]
            /\ abortControllers' = reg
            /\ UNCHANGED predictions
       ELSE IF cy.idx < NumCells(cy.hours)
       THEN /\ cycles' = [cycles EXCEPT ![c] =
                            [cy EXCEPT !.idx = cy.idx + 1, !.newPred = np, !.ab = "none"]]
            /\ abortControllers' = Put(reg, CellKey(cy.hours, cy.idx + 1), c)
            /\ UNCHANGED predictions
       ELSE /\ cycles' = [cycles EXCEPT ![c] = DoneCycle]
            /\ abortControllers' = reg
            /\ predictions' = Publish(predictions, cy.mounted, np)
    /\ UNCHANGED <<phase, enabled, hoursList, timers, job, out>>

Resolve(c) ==
    /\ c \in Running
    /\ \E o \in (IF cycles[c].ab = "none"
                 THEN Outcomes(c, CurD(c), CurH(c))
                 ELSE {[kind |-> "abort", body |-> NoFields]}) : Settle(c, o)

Next ==
    \/ Mount
    \/ Enable
    \/ Disable
    \/ TimerFire
    \/ Unmount
    \/ \E d \in Range(disasters), h \in Range(Hours) : Cancel(d, h)
    \/ \E c \in DOMAIN cycles : Resolve(c)
    \/ ChangePollInterval
    \/ Rerender

Spec == Init /\ [][Next]_vars

TypeOK ==
    /\ phase \in {"new", "live", "gone"}
    /\ enabled \in BOOLEAN
    /\ hoursList \in HoursChoices
    /\ timers \in 0..1
    /\ Len(cycles) <= RequestBudget
    /\ DOMAIN abortControllers \subseteq (Range(disasters) \X Range(Hours))
    /\ Range(abortControllers) \subseteq Running

\* ------------------------- vocabulary of the claims ---------------------
\* The overlay is stopped: disabled or unmounted.
Stopped == phase = "gone" \/ (phase = "live" /\ ~enabled)

\* In this step cycle c issues the request of its next cell.
Issues(c) == cycles'[c].st = "run" /\ cycles'[c].idx = cycles[c].idx + 1
\* In this step the request cycle c awaits settles.
Settles(c) == cycles'[c].st = "done" \/ cycles'[c].idx = cycles[c].idx + 1
\* In this step cycle c ends.
Ends(c) == cycles[c].st = "run" /\ cycles'[c].st = "done"

\* The requests in flight for a key.
InFlight(key) == {c \in Running : CurKey(c) = key}

\* C1: once the overlay is stopped (disabled or unmounted), a cycle that was
\* running at the stop issues no further request.
C1_NoRequestAfterStop ==
    [][Stopped => \A c \in Running : ~Issues(c)]_vars

\* C2: the step that disables or unmounts the overlay clears the timer and
\* aborts the controller of every request in flight at that moment.
C2_StopAbortsAllInFlight ==
    [][((enabled /\ ~enabled') \/ (phase = "live" /\ phase' = "gone"))
          => /\ timers' = 0
             /\ \A c \in Running : cycles'[c].ab # "none"]_vars

\* C3: at most one request in flight per key (disaster, horizon).
C3_OneInFlightPerKey ==
    \A c1, c2 \in Running : CurKey(c1) = CurKey(c2) => c1 = c2

\* C4: a transition into enabled never leaves two poll cycles running at
\* the same time.
C4_NoOverlapAfterToggle ==
    [][(~enabled /\ enabled')
          => Cardinality({c \in DOMAIN cycles' : cycles'[c].st = "run"}) <= 1]_vars

\* A snapshot with an entry for every pair of the grid.
Complete(p) ==
    \A d \in Range(disasters), h \in Range(hoursList) : h \in DOMAIN p[d]
\* Something has been published (a published snapshot has entries).
Published == predictions # EmptyPred

\* C5: every published snapshot has an entry for every pair of
\* {fires, floods, landslides} x hoursList, whichever requests failed.
C5_SnapshotComplete == Published => Complete(predictions)

\* A complete snapshot was published although its last request failed, with
\* another cell of it populated.
C5_Witness ==
    /\ Published /\ Complete(predictions)
    /\ lastWarn.why = "failed"
    /\ predictions[disasters[Len(disasters)]][hoursList[Len(hoursList)]] = <<>>
    /\ predictions[disasters[1]][hoursList[1]] # <<>>

\* What cycle c has collected after this step: its newPred while it runs,
\* the published snapshot when it ends mounted.
Collected(c) == IF cycles'[c].st = "run" THEN cycles'[c].newPred ELSE predictions'

\* C6: when a request of a cycle settles, the cell gets the empty sequence
\* if the request failed and otherwise the features returned to that very
\* request (none when the body has no features); the cells collected before
\* are kept; and the cycle goes on: it issues the request of the next cell
\* or, after the last cell, ends and (when still mounted) publishes.
C6_FailureIsolation ==
    [][\A c \in Running : Settles(c) =>
        LET d == CurD(c)
            h == CurH(c)
            kept == cycles'[c].st = "run" \/ cycles[c].mounted
        IN
        /\ cycles[c].idx < NumCells(cycles[c].hours) => Issues(c)
        /\ cycles[c].idx = NumCells(cycles[c].hours) => Ends(c)
        /\ kept =>
            /\ h \in DOMAIN Collected(c)[d]
            /\ lastWarn'.why # "none" => Collected(c)[d][h] = <<>>
            /\ Collected(c)[d][h] \in {<<>>, BackendFeatures(c, d, h)}
            /\ \A d2 \in Range(disasters) : \A h2 \in DOMAIN cycles[c].newPred[d2] :
                   /\ h2 \in DOMAIN Collected(c)[d2]
                   /\ Collected(c)[d2][h2] = cycles[c].newPred[d2][h2]
      ]_vars

\* A published snapshot whose first cell failed (it is empty) while a later
\* cell holds the features of its own request.
C6_Witness ==
    /\ Published
    /\ predictions[disasters[1]][hoursList[1]] = <<>>
    /\ \E c \in DOMAIN cycles :
         predictions[disasters[2]][hoursList[1]] = BackendFeatures(c, disasters[2], hoursList[1])

\* The cycles whose features occur in a snapshot.
SourcesOf(p) ==
    {p[d][h][i].cycle : <<d, h, i>> \in
        {<<d, h, i>> \in Range(disasters) \X Range(Hours) \X (1..1) :
            h \in DOMAIN p[d] /\ i \in DOMAIN p[d][h]}}

\* C7: the snapshot is published only by a cycle that ends, after all its
\* cells; it never mixes cells of two cycles; and it does not change while
\* a cycle is still collecting cells.
C7_AtomicPublish ==
    [][/\ Cardinality(SourcesOf(predictions')) <= 1
       /\ predictions' # predictions =>
            /\ \E c \in Running : Ends(c) /\ cycles[c].idx = NumCells(cycles[c].hours)
            /\ \A c \in DOMAIN cycles' : cycles'[c].st # "run"
      ]_vars

\* C8: the controller of every request in flight is registered under the
\* request's key.
C8_HandleRegisteredWhileInFlight ==
    \A c \in Running :
        /\ CurKey(c) \in DOMAIN abortControllers
        /\ abortControllers[CurKey(c)] = c

\* C9: every key in the registry belongs to a request in flight for that
\* key; with no request in flight the registry is empty.
C9_NoHandleLeak ==
    /\ \A key \in DOMAIN abortControllers :
          abortControllers[key] \in Running /\ CurKey(abortControllers[key]) = key
    /\ Running = {} => abortControllers = EmptyObj

\* All requests have settled, the last one by the abort of the unmount
\* cleanup, and the registry is empty.
C9_Witness ==
    /\ Len(cycles) >= 2
    /\ Running = {}
    /\ phase = "gone"
    /\ lastWarn.why = "cleanup"
    /\ abortControllers = EmptyObj

\* C10: cancel(d, h) aborts every request in flight for its key and leaves
\* the requests of every other key, and all handles, as they were.
C10_CancelAbortsKey ==
    [][\A d \in Range(disasters), h \in Range(Hours) : Cancel(d, h) =>
         /\ \A c \in InFlight(KeyOf(d, h)) : cycles'[c].ab # "none"
         /\ \A c \in Running \ InFlight(KeyOf(d, h)) : cycles'[c] = cycles[c]
         /\ abortControllers' = abortControllers
      ]_vars

\* The interval timer is set exactly while the overlay is mounted and enabled.
TimerInv == timers = (IF phase = "live" /\ enabled THEN 1 ELSE 0)

\* C11: at most one interval timer is active, and one is active exactly when
\* the overlay is mounted and enabled; every transition into the enabled
\* state starts exactly one cycle at once; a re-render with unchanged
\* dependencies starts no cycle and no timer.
C11_OneTimerOneCycle ==
    [][/\ timers' <= 1
       /\ TimerInv'
       /\ ((phase = "new" /\ phase' = "live" /\ enabled') \/ (~enabled /\ enabled'))
            => /\ Len(cycles') = Len(cycles) + 1
               /\ cycles'[Len(cycles')] = NewCycle(hoursList)
       /\ Rerender => (cycles' = cycles /\ timers' = timers)
      ]_vars

\* The overlay was disabled and enabled again (or its interval changed):
\* one timer, an old cycle and the cycle of the new effect instance.
C11_Witness ==
    /\ phase = "live" /\ enabled /\ timers = 1
    /\ Len(cycles) = 2
    /\ cycles[1].st = "run" /\ ~cycles[1].mounted
    /\ cycles[2].mounted

\* A snapshot without any feature.
NoFeatures(p) == \A d \in DOMAIN p : \A h \in DOMAIN p[d] : p[d][h] = <<>>

\* C12: the snapshot changes only by the publication of a cycle that ends,
\* and while the overlay is disabled the held snapshot has no features.
C12_DiscardedOnDisable ==
    [][/\ predictions' # predictions => \E c \in Running : Ends(c)
       /\ (phase' = "live" /\ ~enabled') => NoFeatures(predictions')
      ]_vars

\* C13: a request that ends by abort gives the empty sequence for its cell,
\* and the abort caused by the stop of the overlay writes no warning.
C13_AbortQuiet ==
    [][\A c \in Running : (Settles(c) /\ cycles[c].ab # "none") =>
         /\ cycles'[c].st = "run" =>
                cycles'[c].newPred[CurD(c)][CurH(c)] = <<>>
         /\ cycles[c].ab = "cleanup" => lastWarn' = NoWarn
      ]_vars

\* C18: a cycle that publishes never replaces the snapshot of a cycle that
\* started after it.
C18_PublishInStartOrder ==
    [][\A c \in Running : (Ends(c) /\ predictions' # predictions) =>
          \A s \in SourcesOf(predictions) : s <= c
      ]_vars

\* In this step the effect instance is cleaned up.
CleansUp ==
    \/ enabled /\ ~enabled'
    \/ phase = "live" /\ phase' = "gone" /\ enabled
    \/ ChangePollInterval

\* C19: the cleanup of an effect instance clears the mounted flag of every
\* cycle started under it, and the snapshot is changed only by a cycle
\* that ends with its flag still set.
C19_NoPublishAfterCleanup ==
    [][/\ CleansUp => \A c \in Running : ~cycles'[c].mounted
       /\ predictions' # predictions => \E c \in Running : Ends(c) /\ cycles[c].mounted
      ]_vars

\* A cycle started before a disable has ended, all its requests answered,
\* and nothing was published.
C19_Witness ==
    /\ phase = "live" /\ ~enabled
    /\ Len(cycles) = 1 /\ cycles[1].st = "done"
    /\ lastWarn = NoWarn
    /\ predictions = EmptyPred

\* (d2, h2) follows (d1, h1) in the nested loops over disasters and hl.
NextInLoop(hl, d1, h1, d2, h2) ==
    \E i \in 1..Len(disasters), j \in 1..Len(hl) :
        /\ d1 = disasters[i] /\ h1 = hl[j]
        /\ IF j < Len(hl)
           THEN d2 = d1 /\ h2 = hl[j + 1]
           ELSE i < Len(disasters) /\ d2 = disasters[i + 1] /\ h2 = hl[1]

\* C20: a cycle awaits one request at a time: it starts with the first cell,
\* a step either leaves its awaited request alone or settles it and issues
\* the request of the cell that follows in loop order, and it ends only
\* from the last cell.
C20_SequentialInOrder ==
    [][\A c \in DOMAIN cycles' :
         LET hl == cycles'[c].hours
             d2 == CellD(hl, cycles'[c].idx)
             h2 == CellH(hl, cycles'[c].idx)
         IN
         IF c \notin DOMAIN cycles
         THEN d2 = disasters[1] /\ h2 = hoursList[1]
         ELSE c \in Running =>
                \/ cycles'[c].st = "run" /\ cycles'[c].idx = cycles[c].idx
                \/ /\ Issues(c)
                   /\ NextInLoop(cycles[c].hours, CurD(c), CurH(c), d2, h2)
                \/ /\ Ends(c)
                   /\ CurD(c) = disasters[Len(disasters)]
                   /\ CurH(c) = cycles[c].hours[Len(cycles[c].hours)]
      ]_vars

\* A cycle over two horizons awaits its third cell, the first of floods.
C20_Witness ==
    \E c \in Running :
        /\ Len(cycles[c].hours) = 2
        /\ cycles[c].idx = 3
        /\ CurKey(c) = KeyOf("floods", 6)

\* ======================= rendering of a snapshot cell ====================
\* JavaScript values of a geometry's coordinates: undefined, a number or an
\* array of values.
JsUndef == [t |-> "undefined", n |-> 0, a |-> <<>>]
JsNum(x) == [t |-> "number", n |-> x, a |-> <<>>]
JsArr(xs) == [t |-> "array", n |-> 0, a |-> xs]

IsArray(v) == v.t = "array"
\* truthiness: undefined and 0 are falsy
Truthy(v) == v.t = "array" \/ (v.t = "number" /\ v.n # 0)
\* v[i] of a value that is not undefined (indexing undefined throws)
At(v, i) == IF v.t = "array" /\ i < Len(v.a) THEN v.a[i + 1] ELSE JsUndef

\* latLongToVector3(lat, lon, alt): the point of the sphere of radius 1 + alt
\* at (lat, lon); kept by its spherical coordinates, the radius in thousandths.
latLongToVector3(lat, lon, alt) == [lat |-> lat, lon |-> lon, radius |-> 1000 + alt]

\* the result of an evaluation that may throw
Thrown == [thrown |-> TRUE, pts |-> <<>>]
Returned(pts) == [thrown |-> FALSE, pts |-> pts]

\* Mutant: the last ring of the polygon is taken instead of the first.
GeoPolygonRing_Last(coordinates) ==
    LET c0 == At(coordinates, Len(coordinates.a) - 1)
        c00 == At(coordinates, 0)
    IN IF IsArray(At(c00, 0)) /\ At(At(c00, 0), 0).t = "number" THEN c0 ELSE c00

\* The ring GeoPolygon draws, for coordinates whose first element is defined:
\* Array.isArray(coordinates[0][0]) && typeof coordinates[0][0][0] === "number"
\*   ? coordinates[0] : coordinates[0][0] || []
GeoPolygonRing(coordinates) ==
    LET c0 == At(coordinates, 0)
        c00 == At(c0, 0)
    IN IF IsArray(c00) /\ At(c00, 0).t = "number" THEN c0
       ELSE IF Truthy(c00) THEN c00 ELSE JsArr(<<>>)

\* pts of GeoPolygon({ coordinates, altitude }); altitude in thousandths
GeoPolygonPts(coordinates, altitude) ==
    IF ~Truthy(coordinates) \/ ~IsArray(coordinates) THEN Returned(<<>>)
    ELSE IF At(coordinates, 0) = JsUndef THEN Thrown       \* undefined[0]
    ELSE LET ring == GeoPolygonRing(coordinates) IN
         IF ~IsArray(ring) THEN Thrown                     \* ring.map is not a function
         ELSE IF \E i \in 1..Len(ring.a) : ~IsArray(ring.a[i])
              THEN Thrown                                  \* ([lon, lat]) of a non-iterable
         ELSE Returned([i \in 1..Len(ring.a) |->
                  latLongToVector3(At(ring.a[i], 1), At(ring.a[i], 0), altitude)])

\* disasterStyle[d].altOffset, in thousandths
altOffset(d) ==
    CASE d = "fires" -> 20
      [] d = "floods" -> 25
      [] d = "landslides" -> 18

NoPrim == [kind |-> "none", size |-> 0, altitude |-> 0, lat |-> JsUndef, lon |-> JsUndef,
           pts |-> <<>>]
MinOf(a, b) == IF a < b THEN a ELSE b

\* 0.006 + Math.min(0.03, risk * 0.08), in thousandths; risk in eighths
PointSize(risk) == 6 + MinOf(30, 10 * risk)

\* What features.map returns for one feature of the cell of disaster d in the
\* group of horizon index horizonIdx: a primitive, null, or a thrown error.
RenderFeature(feat, d, horizonIdx) ==
    IF feat.isNull \/ ~feat.hasGeometry THEN [thrown |-> FALSE, prim |-> NoPrim]
    ELSE IF feat.type = "Point" THEN
        IF ~IsArray(feat.coordinates) THEN [thrown |-> TRUE, prim |-> NoPrim]
        ELSE [thrown |-> FALSE,
              prim |-> [kind |-> "point",
                        size |-> PointSize(IF feat.hasRisk THEN feat.risk ELSE 4),
                        altitude |-> 1000 + altOffset(d),
                        lat |-> At(feat.coordinates, 1),
                        lon |-> At(feat.coordinates, 0),
                        pts |-> <<>>]]
    ELSE IF feat.type \in {"Polygon", "MultiPolygon"} THEN
        IF feat.type = "MultiPolygon" /\ feat.coordinates = JsUndef
        THEN [thrown |-> TRUE, prim |-> NoPrim]            \* undefined[0]
        ELSE LET r == GeoPolygonPts(IF feat.type = "Polygon" THEN feat.coordinates
                                    ELSE At(feat.coordinates, 0),
                                    10 + 2 * horizonIdx)
             IN IF r.thrown THEN [thrown |-> TRUE, prim |-> NoPrim]
                ELSE IF r.pts = <<>> THEN [thrown |-> FALSE, prim |-> NoPrim]
                ELSE [thrown |-> FALSE,
                      prim |-> [kind |-> "line", size |-> 0,
                                altitude |-> 10 + 2 * horizonIdx,
                                lat |-> JsUndef, lon |-> JsUndef, pts |-> r.pts]]
    ELSE [thrown |-> FALSE, prim |-> NoPrim]

\* The render of one cell: the primitives of its features, or a thrown error.
RenderCell(feats, d, horizonIdx) ==
    IF \E i \in 1..Len(feats) : RenderFeature(feats[i], d, horizonIdx).thrown
    THEN [done |-> TRUE, thrown |-> TRUE, prims |-> <<>>, features |-> <<>>]
    ELSE [done |-> TRUE, thrown |-> FALSE,
          prims |-> [i \in 1..Len(feats) |-> RenderFeature(feats[i], d, horizonIdx).prim],
          features |-> <<>>]

\* ------------------------- inputs of the render pass --------------------
Pt(lon, lat) == JsArr(<<JsNum(lon), JsNum(lat)>>)
OuterRing == JsArr(<<Pt(0, 0), Pt(1, 0), Pt(1, 1), Pt(0, 0)>>)
HoleRing == JsArr(<<Pt(2, 2), Pt(3, 2), Pt(2, 2)>>)
OtherRing == JsArr(<<Pt(5, 5), Pt(6, 5), Pt(6, 6), Pt(5, 6), Pt(5, 5)>>)

Feature(type, coordinates, hasRisk, risk) ==
    [isNull |-> FALSE, hasGeometry |-> TRUE, type |-> type, coordinates |-> coordinates,
     hasRisk |-> hasRisk, risk |-> risk]

\* properties.risk in eighths: negative, 0, 0.5, 0.875, 1 and 2
RiskChoices == {-8, -1, 0, 4, 7, 8, 16}

\* Well-formed features of the three supported geometry types.
PointFeatures ==
    {Feature("Point", Pt(10, 20), TRUE, r) : r \in RiskChoices}
        \cup {Feature("Point", Pt(10, 20), FALSE, 0)}
PolygonFeatures ==
    {Feature("Polygon", JsArr(<<OuterRing>>), FALSE, 0),
     Feature("Polygon", JsArr(<<OuterRing, HoleRing>>), FALSE, 0),
     Feature("Polygon", JsArr(<<HoleRing, OuterRing>>), TRUE, 4)}
MultiPolygonFeatures ==
    {Feature("MultiPolygon", JsArr(<<JsArr(<<OuterRing>>)>>), FALSE, 0),
     Feature("MultiPolygon", JsArr(<<JsArr(<<OuterRing, HoleRing>>), JsArr(<<OtherRing>>)>>),
             FALSE, 0),
     Feature("MultiPolygon", JsArr(<<JsArr(<<OtherRing>>), JsArr(<<OuterRing>>)>>), FALSE, 0)}
WellFormed == PointFeatures \cup PolygonFeatures \cup MultiPolygonFeatures

\* Features the renderer has to skip: null, no geometry, an unsupported
\* type, or coordinates that are missing, empty, or an empty ring list.
Malformed ==
    {[isNull |-> TRUE, hasGeometry |-> FALSE, type |-> "", coordinates |-> JsUndef,
      hasRisk |-> FALSE, risk |-> 0],
     [isNull |-> FALSE, hasGeometry |-> FALSE, type |-> "", coordinates |-> JsUndef,
      hasRisk |-> FALSE, risk |-> 0],
     Feature("LineString", OuterRing, FALSE, 0)}
      \cup {Feature(t, c, FALSE, 0) :
              t \in {"Point", "Polygon", "MultiPolygon"},
              c \in {JsUndef, JsArr(<<>>), JsArr(<<JsArr(<<>>)>>)}}

FeatureChoices == WellFormed \cup Malformed

\* The cells rendered: one or two features.
CellChoices ==
    {<<f>> : f \in FeatureChoices} \cup {<<f, g>> : f \in FeatureChoices, g \in Malformed}
        \cup {<<f, g>> : f \in Malformed, g \in WellFormed}

\* --------------------- inputs of the response handling ------------------
\* The feature sequences a backend collection holds (order matters).
FeatureSeqs ==
    LET f1 == BackendFeatures(1, "fires", 6)[1]
        f2 == BackendFeatures(2, "floods", 12)[1]
    IN {<<>>, <<f1>>, <<f2>>, <<f1, f2>>, <<f2, f1>>, <<f1, f1>>}

\* The JSON body of a success response: the collection (with or without a
\* features array), bare or wrapped in { geojson: ... }.
MakeBody(fs, wrapped, hasFeatures) ==
    LET fc == IF hasFeatures THEN FeatureCollection(fs) ELSE NoFields
    IN IF wrapped THEN [geojson |-> <<fc>>, features |-> <<>>] ELSE fc

\* ---------------- specification of the per-value computations -----------
InitPure ==
    /\ phase = "live"
    /\ enabled = TRUE
    /\ hoursList = Hours
    /\ timers = 1
    /\ cycles = <<>>
    /\ abortControllers = EmptyObj
    /\ predictions = EmptyPred
    /\ lastWarn = NoWarn
    /\ out = NoOut
    /\ \/ \E feats \in CellChoices, d \in Range(disasters), i \in 0..(Len(Hours) - 1) :
            job = [kind |-> "render", feats |-> feats, style |-> d, horizonIdx |-> i,
                   fs |-> <<>>, wrapped |-> FALSE, hasFeatures |-> FALSE]
       \/ \E fs \in FeatureSeqs, w \in BOOLEAN, hf \in BOOLEAN :
            job = [kind |-> "response", feats |-> <<>>, style |-> "fires", horizonIdx |-> 0,
                   fs |-> fs, wrapped |-> w, hasFeatures |-> hf]

\* The render pass maps the features of one cell to primitives.
RenderPass ==
    /\ job.kind = "render"
    /\ ~out.done
    /\ out' = RenderCell(job.feats, job.style, job.horizonIdx)
    /\ UNCHANGED <<overlayVars, job>>

\* infer returns the collection of a success body and fetchAll takes its features.
HandleResponse ==
    /\ job.kind = "response"
    /\ ~out.done
    /\ out' = [done |-> TRUE, thrown |-> FALSE, prims |-> <<>>,
               features |-> StoredFeatures([kind |-> "ok",
                                 body |-> MakeBody(job.fs, job.wrapped, job.hasFeatures)])]
    /\ UNCHANGED <<overlayVars, job>>

NextPure == RenderPass \/ HandleResponse

PureSpec == InitPure /\ [][NextPure]_vars

\* ----------------------- vocabulary of the claims -----------------------
Rendered == job.kind = "render" /\ out.done
Handled == job.kind = "response" /\ out.done
Cell == DOMAIN job.feats

\* the risk the size is documented to use: properties.risk when present and
\* within [0,1], else 0.5 (in eighths)
DocumentedRisk(feat) ==
    IF feat.hasRisk /\ feat.risk >= 0 /\ feat.risk <= 8 THEN feat.risk ELSE 4

\* the outer ring of a well-formed Polygon, or of the first polygon of a
\* well-formed MultiPolygon
OuterRingOf(feat) ==
    IF feat.type = "Polygon" THEN feat.coordinates.a[1] ELSE feat.coordinates.a[1].a[1]

\* C14: rendering a cell never raises an error because of a feature's
\* geometry: a feature with no geometry, an unsupported geometry type, or
\* missing or empty coordinates or an empty ring list yields no primitive,
\* and every other feature of the cell is rendered.
C14_MalformedSkipped ==
    Rendered =>
        /\ ~out.thrown
        /\ \A i \in Cell :
              IF job.feats[i] \in Malformed
              THEN out.prims[i] = NoPrim
              ELSE out.prims[i].kind # "none"

\* C15: the features stored for a cell are the features of the collection,
\* in order, whether the success body is the collection or wraps it in
\* { geojson: ... }; a collection without a features array stores the empty
\* sequence.
C15_WrappedOrBare ==
    Handled => out.features = (IF job.hasFeatures THEN job.fs ELSE <<>>)

\* A wrapped body whose collection holds two different features was handled.
C15_Witness ==
    /\ Handled
    /\ job.wrapped
    /\ job.hasFeatures
    /\ Len(job.fs) = 2
    /\ job.fs[1] # job.fs[2]
    /\ out.features = job.fs

\* C16: the size of the primitive of every Point feature is
\* 0.006 + min(0.03, r * 0.08), r being properties.risk when present and
\* within [0,1] and 0.5 otherwise, so the size lies in [0.006, 0.036]
\* (thousandths).
C16_PointSizeInRange ==
    (Rendered /\ ~out.thrown) =>
        \A i \in Cell :
            job.feats[i].type = "Point" /\ out.prims[i].kind = "point" =>
                /\ out.prims[i].size = 6 + MinOf(30, 10 * DocumentedRisk(job.feats[i]))
                /\ out.prims[i].size >= 6
                /\ out.prims[i].size <= 36

\* C17: a Polygon feature yields one line primitive whose vertices are those
\* of coordinates[0] in order, a MultiPolygon feature one line primitive
\* whose vertices are those of coordinates[0][0]; holes and further
\* polygons add no vertex, and the altitude is 0.01 + horizonIndex * 0.002
\* (thousandths). Stated of the render passes that complete.
C17_OuterRingOnly ==
    (Rendered /\ ~out.thrown) =>
        \A i \in Cell :
            job.feats[i] \in PolygonFeatures \cup MultiPolygonFeatures =>
                LET ring == OuterRingOf(job.feats[i]).a
                    prim == out.prims[i]
                IN /\ prim.kind = "line"
                   /\ prim.altitude = 10 + 2 * job.horizonIdx
                   /\ Len(prim.pts) = Len(ring)
                   /\ \A k \in 1..Len(ring) :
                         prim.pts[k] =
                             latLongToVector3(ring[k].a[2], ring[k].a[1],
                                              10 + 2 * job.horizonIdx)

\* A MultiPolygon of two polygons, the first with a hole, was rendered in
\* the group of the last horizon.
C17_Witness ==
    /\ Rendered
    /\ ~out.thrown
    /\ job.horizonIdx = Len(Hours) - 1
    /\ \E i \in Cell :
          /\ job.feats[i].type = "MultiPolygon"
          /\ Len(job.feats[i].coordinates.a) = 2
          /\ Len(job.feats[i].coordinates.a[1].a) = 2
          /\ out.prims[i].kind = "line"
          /\ Len(out.prims[i].pts) = Len(OuterRing.a)

\* ================== termination of the poll cycles ======================
\* The bound on the cycles of a behaviour of the termination specification.
LiveRequestBudget == 4
LiveWithinBudget == Len(cycles) * NumCells(hoursList) < LiveRequestBudget
\* The cycles a behaviour can hold (the first commit starts one whatever the bound).
LiveCycles == 1..LiveRequestBudget

\* The steps that start a cycle, within the bound.
LiveEnable == LiveWithinBudget /\ Enable
LiveTimerFire == LiveWithinBudget /\ TimerFire
LiveChangePollInterval == LiveWithinBudget /\ ChangePollInterval

LiveNext ==
    \/ Mount
    \/ LiveEnable
    \/ Disable
    \/ LiveTimerFire
    \/ Unmount
    \/ \E d \in Range(disasters), h \in Range(Hours) : Cancel(d, h)
    \/ \E c \in DOMAIN cycles : Resolve(c)
    \/ LiveChangePollInterval
    \/ Rerender

\* Every issued request eventually resolves: the request a running cycle
\* awaits settles by success, failure or abort, and fetchAll's continuation
\* then runs.
RequestsResolve == \A c \in LiveCycles : WF_vars(Resolve(c))

LiveSpec == Init /\ [][LiveNext]_vars /\ RequestsResolve

Finished(c) == c \in DOMAIN cycles /\ cycles[c].st = "done"
Rejected(c) == c \in DOMAIN cycles /\ cycles[c].st = "rejected"

\* C21: provided every issued request eventually resolves, every started
\* poll cycle eventually finishes (it publishes its snapshot, or ends
\* without publishing after a stop), and no cycle ever ends by rejecting,
\* whatever the outcomes of its requests.
C21_CycleFinishes ==
    /\ \A c \in LiveCycles : (c \in Running) ~> Finished(c)
    /\ [](\A c \in LiveCycles : ~Rejected(c))

\* Two cycles were started and both have finished, the last request to
\* settle having failed or been aborted, and a snapshot was published.
C21_Witness ==
    /\ Len(cycles) = 2
    /\ \A c \in DOMAIN cycles : Finished(c)
    /\ lastWarn.why # "none"
    /\ Published
====
